---- MODULE Spec2Model ----
(***************************************************************************)
(* Model of wardriver.py: the SQLite store (class Database), the scan      *)
(* handler, and the WiGLE upload path (automatic sync on connectivity and  *)
(* the manual upload of the web hook) of class Wardriver.                  *)
(*                                                                         *)
(* Tables are sequences of rows in rowid order.  Callbacks of the host run *)
(* on threads: two threads deliver on_internet_available, one thread       *)
(* serves the web hook, scan events are delivered by the host's main loop. *)
(* A blocking call (Lock acquisition, requests.post) ends an atomic step.  *)
(*                                                                         *)
(* Left out: the download of the icon assets at the start of the gated     *)
(* section (it touches neither the store nor the lock), the user interface *)
(* and the read-only routes of the web hook.  __session_reported is a list *)
(* in the code and is only tested for membership: it is a set here.  A     *)
(* networks row whose transaction was left open by an exception is kept    *)
(* when the process stops (no wardrive row references it).  The whitelist  *)
(* is the list on_loaded has built, the global one merged in.              *)
(*                                                                         *)
(* Spec is the plugin with its upload threads, StoreSpec the scan handler  *)
(* over starts and stops with scan events of several networks, DbSpec the  *)
(* methods of class Database called with any arguments, LiveSpec is Spec   *)
(* under fairness.  GpsdSpec is the GpsdClient with its server,            *)
(* PwndroidSpec the PwndroidClient with its listener, on_unload and a scan *)
(* event on their own threads, CsvSpec the CSVGenerator given the rows of  *)
(* any session, SourceSpec the one client that gps.method selects and      *)
(* UnloadSpec the store and the scan handler with on_unload.  A handshake  *)
(* or a poll of the GpsdClient that blocks in readline (the socket has no  *)
(* timeout) is left out; a socket nothing refers to is closed at once.     *)
(***************************************************************************)
EXTENDS Integers, Sequences, FiniteSets, TLC

\* ------------------------------------------------------------------ bounds
MaxSessions == 3      \* rows ever inserted into sessions (process starts)
MaxObs == 3           \* rows ever inserted into wardrive
MaxScanLen == 2       \* access points delivered by one scan event
MaxMsgs == 2          \* position messages the pwndroid application sends
MaxRows == 2          \* rows of one session given to the CSVGenerator
MaxFieldLen == 1      \* characters of an SSID given to the CSVGenerator

\* ------------------------------------------------------------------ inputs
SyncThreads == {"t1", "t2"}      \* threads delivering on_internet_available
WebThreads == {"web"}            \* thread serving on_webhook
Threads == SyncThreads \cup WebThreads

NoKey == "<None>"                \* Python None for options['wigle']['api_key']
ApiKeys == {NoKey, "", "key"}
Options == [wigle_enabled : BOOLEAN, api_key : ApiKeys]

Whitelist == {"home"}            \* options['whitelist'] merged with main.whitelist
Aps == { [mac |-> "m1", hostname |-> "a", channel |-> 1],
         [mac |-> "m1", hostname |-> "<hidden>", channel |-> 6],
         [mac |-> "m2", hostname |-> "home", channel |-> 11] }
\* The readings of a location source.  A field holds Python's None when the
\* source did not deliver it (GpsdClient: tpv without 'lat', 'lon' or 'alt';
\* PwndroidClient before its first message), "0.0" is the number zero.  A
\* source that returns no reading at all (gps_data is None) is NoFix as well.
None == "<None>"
Zero == "0.0"
NoFix == [Latitude |-> None, Longitude |-> None, Altitude |-> None]
Fix == [Latitude |-> "45.1", Longitude |-> "9.2", Altitude |-> "120"]
GpsInputs == { NoFix, Fix,
               [Fix EXCEPT !.Latitude = Zero],     \* a position on the equator
               [Fix EXCEPT !.Altitude = None] }    \* a two-dimensional fix
NoLastGps == [latitude |-> "-", longitude |-> "-", altitude |-> "-"]
NoEvent == [aps |-> <<>>, gps |-> NoFix]

RECURSIVE SeqsUpTo(_, _)
SeqsUpTo(S, n) ==
    IF n = 0 THEN { <<>> }
    ELSE LET shorter == SeqsUpTo(S, n - 1)
         IN shorter \cup { Append(q, x) : q \in shorter, x \in S }
\* the host's list holds an access point once, in the order of the channels
ScanInputs ==
    { q \in SeqsUpTo(Aps, MaxScanLen) :
        q # <<>> /\ \A i, j \in 1..Len(q) :
                      i < j => q[i].channel < q[j].channel }
\* the networks of a scan event that reports one network
SingleApInputs == { <<[mac |-> "m1", hostname |-> "a", channel |-> 1]>> }

\* Session ids as they arrive in the web hook's path ('upload/<id>'): text.
Digits == <<"1", "2", "3", "4", "5", "6", "7", "8", "9">>
PathIds == { Digits[i] : i \in 1..MaxSessions } \cup { "x" }

Range(q) == { q[i] : i \in 1..Len(q) }

\* ------------------------------------------------------------------ state
VARIABLES
    sessions,          \* table sessions: rows [id, wigle_uploaded]
    sessions_seq,      \* sqlite_sequence entry of sessions (AUTOINCREMENT)
    networks,          \* table networks: rows [id, mac, ssid]
    wardrive,          \* table wardrive: rows [id, session_id, network_id]
    options,           \* the plugin's configuration (self.options)
    ready,             \* Wardriver.ready
    session_id,        \* Wardriver.__session_id (0: not set)
    session_reported,  \* Wardriver.__session_reported
    wigle_enabled,     \* Wardriver.__wigle_enabled
    gps_available,     \* Wardriver.__gps_available
    last_gps,          \* Wardriver.__last_gps
    lock,              \* Wardriver.__lock is held
    th,                \* per thread: position and locals of its handler
    faulty,            \* remote rejections and store read errors can occur
    acked,             \* history: session ids of requests the remote accepted
    delivered,         \* history: wardrive ids contained in an accepted payload
    last_event,        \* history: the inputs of the run's last scan event
    gpsd,              \* the GpsdClient, its running call and its server
    pwndroid,          \* the PwndroidClient, its listener, on_unload, a scan
    csv,               \* the CSVGenerator's input and the text it returns
    connection         \* the sqlite3 connection of self.__db

vars == << sessions, sessions_seq, networks, wardrive, options, ready,
           session_id, session_reported, wigle_enabled, gps_available,
           last_gps, lock, th, faulty, acked, delivered, last_event,
           gpsd, pwndroid, csv, connection >>

store == << sessions, sessions_seq, networks, wardrive >>
plugin == << options, ready, session_id, session_reported, wigle_enabled,
            gps_available, last_gps >>
history == << acked, delivered, last_event >>
sources == << gpsd, pwndroid >>
aside == << csv, connection >>

IdleThread == [pc |-> "idle", todo |-> <<>>, sid |-> 0, csv |-> <<>>,
               waited |-> FALSE]

\* ------------------------------------------------------------ class Database
\* SQLite compares a TEXT parameter with an INTEGER column after applying
\* numeric affinity to the text: '3' equals 3, 'x' equals no integer.
SqlInteger(text) ==
    IF \E i \in 1..Len(Digits) : Digits[i] = text
    THEN CHOOSE i \in 1..Len(Digits) : Digits[i] = text
    ELSE 0

RECURSIVE MaxId(_, _)
MaxId(tbl, i) ==
    IF i > Len(tbl) THEN 0
    ELSE LET rest == MaxId(tbl, i + 1)
         IN IF tbl[i].id > rest THEN tbl[i].id ELSE rest

\* faulty variant: the column stores the flag inverted
session_flag_inverted(uploaded) == IF uploaded THEN 0 ELSE 1

\* the value SQLite stores for the Python bool bound to wigle_uploaded
session_flag(uploaded) == IF uploaded THEN 1 ELSE 0

\* faulty variant: PRIMARY KEY without AUTOINCREMENT, the id is the largest rowid + 1
new_wardriving_session_rowid(tbl, seq, uploaded) ==
    Append(tbl, [id |-> MaxId(tbl, 1) + 1,
                 wigle_uploaded |-> session_flag(uploaded)])

\* INSERT INTO sessions(wigle_uploaded) VALUES (?): with AUTOINCREMENT the id
\* is the largest id ever given (sqlite_sequence) + 1
new_wardriving_session(tbl, seq, uploaded) ==
    Append(tbl, [id |-> seq + 1, wigle_uploaded |-> session_flag(uploaded)])

\* faulty variant: the empty name is stored as NULL, which equals no value
RECURSIVE find_network_null(_, _, _, _)
find_network_null(tbl, i, mac, ssid) ==
    IF i > Len(tbl) THEN 0
    ELSE IF tbl[i].mac = mac /\ tbl[i].ssid = ssid /\ ssid # "" THEN tbl[i].id
    ELSE find_network_null(tbl, i + 1, mac, ssid)

\* SELECT id FROM networks WHERE mac = ? AND ssid = ?; fetchone()
RECURSIVE find_network(_, _, _, _)
find_network(tbl, i, mac, ssid) ==
    IF i > Len(tbl) THEN 0
    ELSE IF tbl[i].mac = mac /\ tbl[i].ssid = ssid THEN tbl[i].id
    ELSE find_network(tbl, i + 1, mac, ssid)

\* faulty variant: the row is inserted without the lookup
add_network_always(tbl, mac, ssid) ==
    Append(tbl, [id |-> Len(tbl) + 1, mac |-> mac, ssid |-> ssid])

\* add_wardrived_network: the networks table after the call
add_network(tbl, mac, ssid) ==
    IF find_network(tbl, 1, mac, ssid) = 0
    THEN Append(tbl, [id |-> Len(tbl) + 1, mac |-> mac, ssid |-> ssid])
    ELSE tbl

\* faulty variant: the network id is the one found before the INSERT
add_observation_unresolved(wtbl, ntbl, sid, mac, ssid) ==
    Append(wtbl, [id |-> Len(wtbl) + 1, session_id |-> sid,
                  network_id |-> find_network(ntbl, 1, mac, ssid)])

\* add_wardrived_network: the wardrive table after the call
add_observation(wtbl, ntbl, sid, mac, ssid) ==
    Append(wtbl, [id |-> Len(wtbl) + 1, session_id |-> sid,
                  network_id |-> find_network(add_network(ntbl, mac, ssid),
                                              1, mac, ssid)])

\* SELECT ... FROM wardrive JOIN networks ... WHERE wardrive.session_id = ?
RECURSIVE session_networks(_, _, _, _)
session_networks(wtbl, ntbl, i, sid) ==
    IF i > Len(wtbl) THEN <<>>
    ELSE IF wtbl[i].session_id = sid
            /\ \E n \in Range(ntbl) : n.id = wtbl[i].network_id
         THEN <<wtbl[i].id>> \o session_networks(wtbl, ntbl, i + 1, sid)
         ELSE session_networks(wtbl, ntbl, i + 1, sid)

\* faulty variant: the statement flips the flag
session_uploaded_to_wigle_toggle(tbl, sid) ==
    [i \in 1..Len(tbl) |->
        IF tbl[i].id = sid
        THEN [tbl[i] EXCEPT !.wigle_uploaded = 1 - tbl[i].wigle_uploaded]
        ELSE tbl[i]]

\* UPDATE sessions SET "wigle_uploaded" = 1 WHERE id = ?
session_uploaded_to_wigle(tbl, sid) ==
    [i \in 1..Len(tbl) |->
        IF tbl[i].id = sid THEN [tbl[i] EXCEPT !.wigle_uploaded = 1] ELSE tbl[i]]

\* faulty variant: the current session is not excluded
not_uploaded_row_any(row, current) ==
    row.wigle_uploaded = 0

\* faulty variant: only sessions newer than the given one are selected
not_uploaded_row_newer(row, current) ==
    row.wigle_uploaded = 0 /\ row.id > current

\* the WHERE clause of wigle_sessions_not_uploaded
not_uploaded_row(row, current) ==
    row.wigle_uploaded = 0 /\ row.id # current

\* SELECT id FROM sessions WHERE wigle_uploaded = 0 AND id <> ?
RECURSIVE wigle_sessions_not_uploaded(_, _, _)
wigle_sessions_not_uploaded(tbl, i, current) ==
    IF i > Len(tbl) THEN <<>>
    ELSE IF not_uploaded_row(tbl[i], current)
         THEN <<tbl[i].id>> \o wigle_sessions_not_uploaded(tbl, i + 1, current)
         ELSE wigle_sessions_not_uploaded(tbl, i + 1, current)

\* faulty variant: the subquery selects wardrive.network_id
remove_empty_sessions_by_network(tbl, wtbl) ==
    SelectSeq(tbl, LAMBDA r : r.id \in { w.network_id : w \in Range(wtbl) })

\* faulty variant: the constructor of Database does not purge
remove_empty_sessions_none(tbl, wtbl) == tbl

\* DELETE FROM sessions WHERE id NOT IN (SELECT session_id FROM wardrive ...)
remove_empty_sessions(tbl, wtbl) ==
    SelectSeq(tbl, LAMBDA r : r.id \in { w.session_id : w \in Range(wtbl) })

IsUploaded(tbl, sid) ==
    \E r \in Range(tbl) : r.id = sid /\ r.wigle_uploaded = 1

\* ------------------------------------------------------------ class GpsdClient
\* GpsdClient.MAX_RETRIES
MAX_RETRIES == 5

\* The client after __init__, no call running.  socket and stream tell
\* whether __gpsd_socket and __gpsd_stream are set; attempt and sleeps count
\* the iterations and the backoffs of the running connect(), polls the
\* iterations of the running get_coordinates(), handshakes the handshake
\* attempts made since that call began; caller is the caller of connect(),
\* result the outcome of the last get_coordinates(), server the state of the
\* gpsd server, last the answer to the last POLL of the running or last
\* get_coordinates(); stale tells that __gpsd_stream still belongs to an
\* earlier socket than __gpsd_socket and keeps that socket open.
GpsdNew == [pc |-> "idle", caller |-> "host", socket |-> FALSE,
            stream |-> FALSE, attempt |-> 0, sleeps |-> 0, acked |-> FALSE,
            polls |-> 0, handshakes |-> 0, result |-> "none", server |-> "up",
            last |-> "none", stale |-> FALSE]

\* what one iteration of connect() meets: the connection is refused
\* (socket.connect raises), the acknowledgment is not a VERSION object
\* (malformed, other class, no 'class'), or it is one
HandshakeOutcomes(server) ==
    IF server = "up" THEN {"version", "badack", "refused"} ELSE {"refused"}

\* what one iteration of get_coordinates() meets: an exception of the
\* socket layer or of the missing stream ("error"), an empty line, a line
\* that is not JSON, a line without a POLL report that has a tpv entry, such
\* a report whose first entry lacks 'lat' or 'lon' ("nolatlon"), or one
\* whose first entry has both ("fix")
PollOutcomes(stream, server) ==
    IF ~stream THEN {"error"}
    ELSE IF server = "up"
         THEN {"fix", "nolatlon", "empty", "malformed", "wrongclass", "error"}
         ELSE {"empty", "error"}

\* faulty variant: while True
more_attempts_forever(attempt) == TRUE

\* for attempt in range(self.MAX_RETRIES)
more_attempts(attempt) == attempt < MAX_RETRIES

\* faulty variant: except OSError
caught_oserror(outcome) == outcome = "error"

\* the bare 'except:' of get_coordinates catches what the try-block raises
caught(outcome) == TRUE

\* faulty variant: the socket is closed and the reference to it is kept
gpsd_disconnect_keeps(g) ==
    IF g.socket THEN [g EXCEPT !.stream = FALSE] ELSE g

\* disconnect(): with a socket, close it and forget socket and stream
gpsd_disconnect(g) ==
    IF g.socket
    THEN [g EXCEPT !.socket = FALSE, !.stream = FALSE, !.stale = FALSE]
    ELSE g

\* the dictionary returned for a POLL report with a tpv entry:
\* .get('lat', None) and .get('lon', None) give None for a missing key
\* ("partial": a record without latitude or longitude)
poll_returns(outcome) == IF outcome = "fix" THEN "fix" ELSE "partial"

\* connect() returns to its caller: to on_loaded, or to the except-block of
\* get_coordinates, whose loop goes on
connect_returns(g) ==
    [g EXCEPT !.pc = IF g.caller = "host" THEN "idle" ELSE "poll"]

\* on_loaded calls connect()
GpsdConnect ==
    /\ gpsd.pc = "idle"
    /\ gpsd' = [gpsd EXCEPT !.pc = "connect", !.caller = "host",
                            !.attempt = 0, !.sleeps = 0, !.acked = FALSE,
                            !.handshakes = 0]
    /\ UNCHANGED << store, plugin, lock, th, faulty, history, pwndroid,
                    aside >>

\* one iteration of the loop of connect().  The socket of the attempt
\* replaces the reference to the one before, which is not closed: it goes
\* when nothing refers to it any more, and the stream made from it still
\* does until a new stream is made.
GpsdHandshake(outcome) ==
    /\ gpsd.pc = "connect"
    /\ more_attempts(gpsd.attempt)
    /\ outcome \in HandshakeOutcomes(gpsd.server)
    /\ LET g == [gpsd EXCEPT !.socket = TRUE,
                             !.stream = (outcome # "refused") \/ gpsd.stream,
                             !.stale = (outcome = "refused") /\ gpsd.stream,
                             !.attempt = gpsd.attempt + 1,
                             !.handshakes = gpsd.handshakes + 1]
       IN gpsd' = IF outcome = "version"
                  THEN connect_returns([g EXCEPT !.acked = TRUE])
                  ELSE [g EXCEPT !.sleeps = g.sleeps + 1]     \* time.sleep(5)
    /\ UNCHANGED << store, plugin, lock, th, faulty, history, pwndroid,
                    aside >>

\* the loop of connect() is over: the method returns None
GpsdConnectExhausted ==
    /\ gpsd.pc = "connect"
    /\ ~more_attempts(gpsd.attempt)
    /\ gpsd' = connect_returns(gpsd)
    /\ UNCHANGED << store, plugin, lock, th, faulty, history, pwndroid,
                    aside >>

\* on_unfiltered_ap_list or on_ui_update calls get_coordinates()
GpsdPollCall ==
    /\ gpsd.pc = "idle"
    /\ gpsd' = [gpsd EXCEPT !.pc = "poll", !.polls = 0, !.handshakes = 0,
                            !.result = "none", !.last = "none"]
    /\ UNCHANGED << store, plugin, lock, th, faulty, history, pwndroid,
                    aside >>

\* one iteration of the loop of get_coordinates(); the except-block calls
\* disconnect() and connect()
GpsdPoll(outcome) ==
    /\ gpsd.pc = "poll"
    /\ gpsd.polls < MAX_RETRIES
    /\ outcome \in PollOutcomes(gpsd.stream, gpsd.server)
    /\ LET g == [gpsd EXCEPT !.polls = gpsd.polls + 1, !.last = outcome]
       IN gpsd' =
            IF outcome \in {"fix", "nolatlon"}
            THEN [g EXCEPT !.pc = "idle", !.result = poll_returns(outcome)]
            ELSE IF outcome \in {"empty", "wrongclass"}
            THEN g
            ELSE IF caught(outcome)
            THEN [g EXCEPT !.pc = "connect", !.caller = "poll",
                           !.socket = FALSE, !.stream = FALSE,
                           !.stale = FALSE, !.attempt = 0, !.sleeps = 0, !.acked = FALSE]
            ELSE [g EXCEPT !.pc = "idle", !.result = "raised"]
    /\ UNCHANGED << store, plugin, lock, th, faulty, history, pwndroid,
                    aside >>

\* the loop of get_coordinates() is over: return None
GpsdPollExhausted ==
    /\ gpsd.pc = "poll"
    /\ gpsd.polls = MAX_RETRIES
    /\ gpsd' = [gpsd EXCEPT !.pc = "idle", !.result = "nofix"]
    /\ UNCHANGED << store, plugin, lock, th, faulty, history, pwndroid,
                    aside >>

\* on_unload calls disconnect()
GpsdDisconnect ==
    /\ gpsd.pc = "idle"
    /\ gpsd.socket
    /\ gpsd' = gpsd_disconnect(gpsd)
    /\ UNCHANGED << store, plugin, lock, th, faulty, history, pwndroid,
                    aside >>

\* the gpsd server goes down or comes up while no call of the client runs
GpsdServer ==
    /\ gpsd.pc = "idle"
    /\ gpsd' = [gpsd EXCEPT !.server = IF gpsd.server = "up" THEN "down"
                                       ELSE "up"]
    /\ UNCHANGED << store, plugin, lock, th, faulty, history, pwndroid,
                    aside >>

GpsdNext ==
    \/ GpsdConnect
    \/ \E o \in {"version", "badack", "refused"} : GpsdHandshake(o)
    \/ GpsdConnectExhausted
    \/ GpsdPollCall
    \/ \E o \in {"fix", "nolatlon", "empty", "malformed", "wrongclass",
               "error"} : GpsdPoll(o)
    \/ GpsdPollExhausted
    \/ GpsdDisconnect
    \/ GpsdServer

\* ------------------------------------------------------------ class PwndroidClient
\* The coordinates of the client hold, per field, the number of the message
\* the value came from (0: None, as after __init__); message n carries the
\* fix (n, n, n).
NoCoordinates == [Latitude |-> 0, Longitude |-> 0, Altitude |-> 0]

\* The client after __init__ and the three threads that use it.  pc is the
\* position of connect() and of __get_gps_coordinates() (run by on_loaded),
\* websocket and destroy are __websocket and __destroy, msgs the messages
\* with a position received so far, last the outcome of the last recv();
\* upc is the position of disconnect() (run by on_unload), unloaded tells
\* that it was called; rpc is the position of a scan event reading the fix
\* and used the 'coordinates' it builds for its observations.
PwndroidNew == [pc |-> "new", websocket |-> FALSE, destroy |-> FALSE,
                coordinates |-> NoCoordinates, msgs |-> 0, last |-> "none",
                upc |-> "none", unloaded |-> FALSE,
                rpc |-> "idle", used |-> NoCoordinates]

\* what 'await self.__websocket.recv()' and json.loads meet: a message with
\* the three fields, a JSON message without them, ConnectionClosed, a
\* message that is not JSON, another exception.  Once __websocket is None
\* the call itself raises.
RecvOutcomes(p) ==
    IF ~p.websocket THEN {"error"}
    ELSE {"closed", "undecodable", "error", "invalid"}
         \cup (IF p.msgs < MaxMsgs THEN {"fix"} ELSE {})

\* faulty variant: a message that is not JSON drops the connection as well
keeps_websocket_decodable(outcome) == outcome \notin {"closed", "undecodable"}

\* the except-clauses of __get_gps_coordinates: only ConnectionClosed sets
\* __websocket to None
keeps_websocket(outcome) == outcome # "closed"

\* disconnect() behind its test: close() is over, __websocket = None,
\* __destroy = True
disconnect_closed(p) == [p EXCEPT !.websocket = FALSE, !.destroy = TRUE]

\* disconnect() run without interruption
pwndroid_disconnect(p) == IF p.websocket THEN disconnect_closed(p) ELSE p

\* on_loaded, after it has set ready, creates the client and runs connect()
PwndroidStart ==
    /\ ready
    /\ pwndroid.pc = "new"
    /\ pwndroid' = [pwndroid EXCEPT !.pc = "loop"]
    /\ UNCHANGED << store, plugin, lock, th, faulty, history, gpsd, aside >>

\* connect(): while not self.__websocket and not self.__destroy
PwndroidLoopTest ==
    /\ pwndroid.pc = "loop"
    /\ pwndroid' = [pwndroid EXCEPT !.pc =
                        IF ~pwndroid.websocket /\ ~pwndroid.destroy
                        THEN "connecting" ELSE "exited"]
    /\ UNCHANGED << store, plugin, lock, th, faulty, history, gpsd, aside >>

\* connect(): one connection attempt; a failure sets __websocket to None
\* and sleeps
PwndroidAttempt(ok) ==
    /\ pwndroid.pc = "connecting"
    /\ pwndroid' = IF ok
                   THEN [pwndroid EXCEPT !.websocket = TRUE, !.pc = "listening"]
                   ELSE [pwndroid EXCEPT !.websocket = FALSE, !.pc = "sleep10"]
    /\ UNCHANGED << store, plugin, lock, th, faulty, history, gpsd, aside >>

\* connect(): await asyncio.sleep(10) is over
PwndroidSleep10 ==
    /\ pwndroid.pc = "sleep10"
    /\ pwndroid' = [pwndroid EXCEPT !.pc = "loop"]
    /\ UNCHANGED << store, plugin, lock, th, faulty, history, gpsd, aside >>

\* __get_gps_coordinates(): while self.__websocket; the method returns
\* normally to the loop of connect()
PwndroidListenTest ==
    /\ pwndroid.pc = "listening"
    /\ pwndroid' = [pwndroid EXCEPT !.pc =
                        IF pwndroid.websocket THEN "recv" ELSE "loop"]
    /\ UNCHANGED << store, plugin, lock, th, faulty, history, gpsd, aside >>

\* __get_gps_coordinates(): recv(), json.loads, the test of the fields and
\* the except-clauses
PwndroidRecv(outcome) ==
    /\ pwndroid.pc = "recv"
    /\ outcome \in RecvOutcomes(pwndroid)
    /\ pwndroid' =
         IF outcome = "fix"
         THEN [pwndroid EXCEPT !.last = outcome, !.msgs = pwndroid.msgs + 1,
                               !.pc = "write_lat"]
         ELSE IF outcome = "invalid"
         THEN [pwndroid EXCEPT !.last = outcome, !.pc = "sleep5"]
         ELSE [pwndroid EXCEPT !.last = outcome, !.pc = "listening",
                               !.websocket = pwndroid.websocket
                                             /\ keeps_websocket(outcome)]
    /\ UNCHANGED << store, plugin, lock, th, faulty, history, gpsd, aside >>

\* __get_gps_coordinates(): the three assignments to self.coordinates
PwndroidWrite ==
    /\ pwndroid.pc \in {"write_lat", "write_lon", "write_alt"}
    /\ pwndroid' =
         IF pwndroid.pc = "write_lat"
         THEN [pwndroid EXCEPT !.coordinates.Latitude = pwndroid.msgs,
                               !.pc = "write_lon"]
         ELSE IF pwndroid.pc = "write_lon"
         THEN [pwndroid EXCEPT !.coordinates.Longitude = pwndroid.msgs,
                               !.pc = "write_alt"]
         ELSE [pwndroid EXCEPT !.coordinates.Altitude = pwndroid.msgs,
                               !.pc = "sleep5"]
    /\ UNCHANGED << store, plugin, lock, th, faulty, history, gpsd, aside >>

\* __get_gps_coordinates(): await asyncio.sleep(5) is over
PwndroidSleep5 ==
    /\ pwndroid.pc = "sleep5"
    /\ pwndroid' = [pwndroid EXCEPT !.pc = "listening"]
    /\ UNCHANGED << store, plugin, lock, th, faulty, history, gpsd, aside >>

\* on_unload runs disconnect(): with a connection it awaits close(),
\* without one it only logs ('self.__destroy = True' is inside
\* 'if self.__websocket:')
PwndroidDisconnect ==
    /\ pwndroid.pc # "new"
    /\ pwndroid.upc = "none"
    /\ pwndroid' = [pwndroid EXCEPT !.unloaded = TRUE,
                        !.upc = IF pwndroid.websocket THEN "closing"
                                ELSE "done"]
    /\ UNCHANGED << store, plugin, lock, th, faulty, history, gpsd, aside >>

\* disconnect(): close() is over; __websocket = None, __destroy = True
PwndroidDisconnectFinish ==
    /\ pwndroid.upc = "closing"
    /\ pwndroid' = [disconnect_closed(pwndroid) EXCEPT !.upc = "done"]
    /\ UNCHANGED << store, plugin, lock, th, faulty, history, gpsd, aside >>

\* on_unfiltered_ap_list with method 'pwndroid': the ready check, then
\* is_connected(), gps_data is the client's dictionary itself, and the test
\* of line 660.  Before on_loaded has created the client the attribute
\* __pwndroid_client does not exist: the handler ends with AttributeError.
PwndroidScan ==
    /\ ready
    /\ pwndroid.rpc \in {"idle", "raised"}
    /\ pwndroid' = [pwndroid EXCEPT !.used = NoCoordinates,
                        !.rpc = IF pwndroid.pc = "new" THEN "raised"
                                ELSE IF /\ pwndroid.websocket
                                        /\ pwndroid.coordinates.Latitude # 0
                                        /\ pwndroid.coordinates.Longitude # 0
                                THEN "read_lat" ELSE "idle"]
    /\ UNCHANGED << store, plugin, lock, th, faulty, history, gpsd, aside >>

\* on_unfiltered_ap_list: the three reads of gps_data that build
\* 'coordinates'
PwndroidScanRead ==
    /\ pwndroid.rpc \in {"read_lat", "read_lon", "read_alt"}
    /\ pwndroid' =
         IF pwndroid.rpc = "read_lat"
         THEN [pwndroid EXCEPT !.used.Latitude = pwndroid.coordinates.Latitude,
                               !.rpc = "read_lon"]
         ELSE IF pwndroid.rpc = "read_lon"
         THEN [pwndroid EXCEPT !.used.Longitude = pwndroid.coordinates.Longitude,
                               !.rpc = "read_alt"]
         ELSE [pwndroid EXCEPT !.used.Altitude = pwndroid.coordinates.Altitude,
                               !.rpc = "idle"]
    /\ UNCHANGED << store, plugin, lock, th, faulty, history, gpsd, aside >>

PwndroidNext ==
    \/ PwndroidStart
    \/ PwndroidLoopTest
    \/ \E ok \in BOOLEAN : PwndroidAttempt(ok)
    \/ PwndroidSleep10
    \/ PwndroidListenTest
    \/ \E o \in {"fix", "invalid", "closed", "undecodable", "error"} :
           PwndroidRecv(o)
    \/ PwndroidWrite
    \/ PwndroidSleep5
    \/ PwndroidDisconnect
    \/ PwndroidDisconnectFinish
    \/ PwndroidScan
    \/ PwndroidScanRead

\* ------------------------------------------------------------ class CSVGenerator
\* A text is a sequence of symbols: the comma, the newline, and one symbol
\* per other character or per value whose characters do not matter.
Comma == ","
Newline == "\n"

\* the characters an SSID is made of
CsvChars == {"a", Comma, Newline}
CsvFields == UNION { [1..n -> CsvChars] : n \in 0..MaxFieldLen }

\* the rows session_networks returns: mac, ssid and auth_mode are texts of
\* the store, the other columns are formatted by the f-string
CsvRows == [mac : {<<"m1">>}, ssid : CsvFields, auth_mode : {<<>>, <<"[WPA2]">>},
            seen_timestamp : {<<"2024-01-01 10:00:00">>}, channel : {<<"6">>},
            rssi : {<<"-70">>}, latitude : {<<"45.1">>},
            longitude : {<<"9.2">>}, altitude : {<<"120">>},
            accuracy : {<<"50">>}]
CsvInputs == UNION { [1..n -> CsvRows] : n \in 0..MaxRows }

\* the generator before a call
CsvNew == [stage |-> "new", networks |-> <<>>, text |-> <<>>]

\* text.join(sep) of a sequence of texts
RECURSIVE join(_, _)
join(parts, sep) ==
    IF parts = <<>> THEN <<>>
    ELSE IF Len(parts) = 1 THEN parts[1]
    ELSE parts[1] \o <<sep>> \o join(Tail(parts), sep)

\* the pre-header: eight values of the device, comma-separated
pre_header ==
    join(<< <<"WigleWifi-1.4">>, <<"release">>, <<"model">>, <<"os">>,
            <<"device">>, <<"display">>, <<"board">>, <<"brand">> >>, Comma)
    \o <<Newline>>

\* __csv_header
csv_header ==
    join(<< <<"MAC">>, <<"SSID">>, <<"AuthMode">>, <<"FirstSeen">>,
            <<"Channel">>, <<"RSSI">>, <<"CurrentLatitude">>,
            <<"CurrentLongitude">>, <<"AltitudeMeters">>,
            <<"AccuracyMeters">>, <<"Type">> >>, Comma)
    \o <<Newline>>

\* __csv_network: the values as they are, separated by commas
csv_network(network) ==
    join(<< network.mac, network.ssid, network.auth_mode,
            network.seen_timestamp, network.channel, network.rssi,
            network.latitude, network.longitude, network.altitude,
            network.accuracy, <<"WIFI">> >>, Comma)
    \o <<Newline>>

\* networks_to_csv
RECURSIVE networks_to_csv_from(_, _)
networks_to_csv_from(nets, i) ==
    IF i > Len(nets) THEN <<>>
    ELSE csv_network(nets[i]) \o networks_to_csv_from(nets, i + 1)

networks_to_csv(nets) == csv_header \o networks_to_csv_from(nets, 1)

\* networks_to_wigle_csv
networks_to_wigle_csv(nets) == pre_header \o networks_to_csv(nets)

\* __upload_session_to_wigle: csv = networks_to_wigle_csv(networks)
CsvGenerate ==
    /\ csv.stage = "new"
    /\ csv' = [csv EXCEPT !.stage = "csv",
                          !.text = networks_to_wigle_csv(csv.networks)]
    /\ UNCHANGED << store, plugin, lock, th, faulty, history, sources,
                    connection >>

CsvNext == CsvGenerate

\* ------------------------------------------------------------ initial state
InitPlugin ==
    /\ sessions = <<>>
    /\ sessions_seq = 0
    /\ networks = <<>>
    /\ wardrive = <<>>
    /\ options \in Options
    /\ ready = FALSE
    /\ session_id = 0
    /\ session_reported = {}
    /\ wigle_enabled = FALSE
    /\ gps_available = TRUE
    /\ last_gps = NoLastGps
    /\ lock = FALSE
    /\ th = [t \in Threads |-> IdleThread]
    /\ faulty = TRUE
    /\ acked = {}
    /\ delivered = {}
    /\ last_event = NoEvent
    /\ gpsd = GpsdNew
    /\ pwndroid = PwndroidNew
    /\ connection = "none"

Init == InitPlugin /\ csv = CsvNew

\* ------------------------------------------------------------ on_loaded
\* wigle enabled only with a non-empty api key
wigle_enabled_option(opt) ==
    opt.wigle_enabled /\ ~(opt.api_key = NoKey \/ opt.api_key = "")

on_loaded ==
    /\ ~ready
    /\ sessions_seq < MaxSessions
    /\ wigle_enabled' = wigle_enabled_option(options)
    /\ sessions' = new_wardriving_session(
                       remove_empty_sessions(sessions, wardrive),
                       sessions_seq, FALSE)
    /\ sessions_seq' = sessions_seq + 1
    /\ session_id' = sessions'[Len(sessions')].id       \* cursor.lastrowid
    /\ session_reported' = {}
    /\ gps_available' = TRUE
    /\ last_gps' = NoLastGps
    /\ lock' = FALSE
    /\ ready' = TRUE
    /\ connection' = "open"
    /\ last_event' = NoEvent
    /\ UNCHANGED << networks, wardrive, options, th, faulty, sources, csv, acked,
                    delivered >>

\* The process stops (crash, power loss, restart of the host): every thread
\* and every in-memory field is gone, the store file stays.
Restart ==
    /\ ready
    /\ sessions_seq < MaxSessions
    /\ ready' = FALSE
    /\ session_id' = 0
    /\ session_reported' = {}
    /\ wigle_enabled' = FALSE
    /\ gps_available' = TRUE
    /\ last_gps' = NoLastGps
    /\ lock' = FALSE
    /\ th' = [t \in Threads |-> IdleThread]
    /\ last_event' = NoEvent
    /\ connection' = "none"
    /\ UNCHANGED << store, options, faulty, sources, csv, acked, delivered >>

\* ------------------------------------------------------- on_unfiltered_ap_list
\* faulty variant: nothing is filtered
filter_whitelist_aps_none(aps) == aps

\* __filter_whitelist_aps
filter_whitelist_aps(aps) ==
    SelectSeq(aps, LAMBDA ap : ap.hostname \notin Whitelist)

\* __filter_reported_aps: the test is on (mac, hostname)
filter_reported_aps(aps, reported) ==
    SelectSeq(aps, LAMBDA ap : <<ap.mac, ap.hostname>> \notin reported)

\* ssid = ap['hostname'] if ap['hostname'] != '<hidden>' else ''
ssid_of(ap) == IF ap.hostname # "<hidden>" THEN ap.hostname ELSE ""

\* the truth value Python gives a field of a reading: None and 0 are false
truthy(v) == v # None /\ v # Zero

\* faulty variant: every event is processed as located
has_fix_always(gps) == TRUE

\* gps_data and all([gps_data["Latitude"], gps_data["Longitude"]])
has_fix(gps) == truthy(gps.Latitude) /\ truthy(gps.Longitude)

\* wardrive declares latitude, longitude and altitude NOT NULL: the INSERT
\* of a row with None in one of them raises sqlite3.IntegrityError
wardrive_not_null(gps) ==
    gps.Latitude # None /\ gps.Longitude # None /\ gps.Altitude # None

\* The loop 'for ap in filtered_aps' over the store and the dedup list.  The
\* pair is appended to __session_reported before add_wardrived_network runs;
\* when its INSERT INTO wardrive raises, the networks row it has inserted
\* stays on the connection and the exception ends the loop and the handler.
RECURSIVE write_aps(_, _, _, _)
write_aps(aps, i, st, gps) ==
    IF i > Len(aps) \/ st.raised THEN st
    ELSE write_aps(aps, i + 1,
           [ networks |-> add_network(st.networks, aps[i].mac, ssid_of(aps[i])),
             wardrive |-> IF wardrive_not_null(gps)
                          THEN add_observation(st.wardrive, st.networks,
                                               session_id, aps[i].mac,
                                               ssid_of(aps[i]))
                          ELSE st.wardrive,
             reported |-> st.reported \cup { <<aps[i].mac, ssid_of(aps[i])>> },
             raised |-> ~wardrive_not_null(gps) ],
           gps)

\* the networks of an event that pass both filters
surviving(aps) ==
    filter_reported_aps(filter_whitelist_aps(aps), session_reported)

on_unfiltered_ap_list(aps, gps) ==
    /\ ready
    /\ connection = "open"
    /\ IF has_fix(gps)
       THEN LET st == write_aps(surviving(aps), 1,
                                [networks |-> networks, wardrive |-> wardrive,
                                 reported |-> session_reported,
                                 raised |-> FALSE], gps)
            IN /\ Len(wardrive) + Len(surviving(aps)) <= MaxObs
               /\ gps_available' = TRUE
               /\ last_gps' = [latitude |-> gps.Latitude,
                               longitude |-> gps.Longitude,
                               altitude |-> gps.Altitude]
               /\ networks' = st.networks
               /\ wardrive' = st.wardrive
               /\ session_reported' = st.reported
       ELSE /\ gps_available' = FALSE
            /\ last_gps' = NoLastGps
            /\ UNCHANGED << networks, wardrive, session_reported >>
    /\ last_event' = [aps |-> aps, gps |-> gps]
    /\ UNCHANGED << sessions, sessions_seq, options, ready, session_id,
                    wigle_enabled, lock, th, faulty, sources, aside, acked, delivered >>

ScanEvent == \E aps \in ScanInputs, gps \in GpsInputs :
                 on_unfiltered_ap_list(aps, gps)

\* on_unload: the location clients are left aside, Database.disconnect
\* commits and closes the connection; self.ready is not assigned
on_unload ==
    /\ ready
    /\ connection = "open"
    /\ connection' = "closed"
    /\ UNCHANGED << store, plugin, lock, th, faulty, history, sources, csv >>

\* on_unfiltered_ap_list after on_unload: the handler is the same, and the
\* first add_wardrived_network, reached after the append to
\* __session_reported, raises sqlite3.ProgrammingError on the closed
\* connection ("failed": an operation was attempted on it)
ScanClosed(aps, gps) ==
    /\ ready
    /\ connection \in {"closed", "failed"}
    /\ IF has_fix(gps)
       THEN /\ gps_available' = TRUE
            /\ last_gps' = [latitude |-> gps.Latitude,
                            longitude |-> gps.Longitude,
                            altitude |-> gps.Altitude]
            /\ IF surviving(aps) # <<>>
               THEN /\ session_reported' = session_reported \cup
                          { <<surviving(aps)[1].mac, ssid_of(surviving(aps)[1])>> }
                    /\ connection' = "failed"
               ELSE UNCHANGED << session_reported, connection >>
       ELSE /\ gps_available' = FALSE
            /\ last_gps' = NoLastGps
            /\ UNCHANGED << session_reported, connection >>
    /\ last_event' = [aps |-> aps, gps |-> gps]
    /\ UNCHANGED << store, options, ready, session_id, wigle_enabled, lock, th,
                    faulty, sources, csv, acked, delivered >>

\* a scan event that reports one network at a complete fix
SingleApEvent == \E aps \in SingleApInputs : on_unfiltered_ap_list(aps, Fix)

\* ------------------------------------------------- __upload_session_to_wigle
\* 'if self.__wigle_api_key != ""': None passes the test
has_api_key(opt) == opt.api_key # ""

\* networks = self.__db.session_networks(session_id), made into the csv file
upload_payload(sid) == session_networks(wardrive, networks, 1, sid)

\* the remote service authenticates the request by the key
key_accepted(opt) == opt.api_key = "key"

\* faulty variant: the flag is set whether or not the request succeeded
upload_result_sessions_always(tbl, sid, ok) ==
    session_uploaded_to_wigle(tbl, sid)

\* after response.raise_for_status(): the sessions table when the call returns
upload_result_sessions(tbl, sid, ok) ==
    IF ok THEN session_uploaded_to_wigle(tbl, sid) ELSE tbl

\* 'for session_id in sessions_to_upload' goes on, or the with-block ends
next_in_pass(t) ==
    IF th[t].todo = <<>>
    THEN /\ th' = [th EXCEPT ![t] = IdleThread]
         /\ lock' = FALSE
    ELSE /\ th' = [th EXCEPT ![t] = [IdleThread EXCEPT !.pc = "pass",
                                                      !.todo = th[t].todo]]
         /\ lock' = lock

\* the call returns to on_webhook (t serves the web hook) or to the loop
upload_returns(t) ==
    IF t \in WebThreads
    THEN th' = [th EXCEPT ![t] = IdleThread] /\ lock' = lock
    ELSE next_in_pass(t)

\* requests.post returns, raise_for_status passes: the flag is set and the
\* call returns True
UploadAccepted(t) ==
    /\ th[t].pc = "posting"
    /\ key_accepted(options)
    /\ sessions' = upload_result_sessions(sessions, th[t].sid, TRUE)
    /\ acked' = acked \cup { th[t].sid }
    /\ delivered' = delivered \cup Range(th[t].csv)
    /\ upload_returns(t)
    /\ UNCHANGED << sessions_seq, networks, wardrive, plugin, faulty, sources, aside,
                    last_event >>

\* requests.post or raise_for_status raises (rejection, transport error,
\* timeout): the thread is in the except-block
UploadRaises(t) ==
    /\ th[t].pc = "posting"
    /\ faulty \/ ~key_accepted(options)
    /\ th' = [th EXCEPT ![t].pc = "failed"]
    /\ UNCHANGED << store, plugin, lock, faulty, sources, aside, history >>

\* the except-block logs the error and the call returns False
UploadFailed(t) ==
    /\ th[t].pc = "failed"
    /\ sessions' = upload_result_sessions(sessions, th[t].sid, FALSE)
    /\ upload_returns(t)
    /\ UNCHANGED << sessions_seq, networks, wardrive, plugin, faulty, sources, aside, history >>

\* ------------------------------------------------------ on_internet_available
\* 'if not self.__lock.locked() and self.ready'
gate_open == ~lock /\ ready

\* faulty variant: the with-block is entered without the lock
with_lock_enabled_nolock == TRUE

\* 'with self.__lock' can be entered
with_lock_enabled == ~lock

sessions_to_upload ==
    IF wigle_enabled
    THEN wigle_sessions_not_uploaded(sessions, 1, session_id)
    ELSE <<>>

\* the signal arrives on thread t: the test on the lock and the ready flag
InternetAvailable(t) ==
    /\ ready
    /\ th[t].pc = "idle"
    /\ IF gate_open
       THEN th' = [th EXCEPT ![t].pc = "acquire"]
       ELSE th' = th
    /\ UNCHANGED << store, plugin, lock, faulty, sources, aside, history >>

\* thread t gets the lock and fetches the list of sessions to upload; a
\* thread left blocked on the lock has waited for a running pass
EnterPass(t) ==
    /\ th[t].pc = "acquire"
    /\ with_lock_enabled
    /\ LET blocked == [u \in Threads |->
                         IF u # t /\ th[u].pc = "acquire"
                         THEN [th[u] EXCEPT !.waited = TRUE] ELSE th[u]]
       IN IF sessions_to_upload = <<>>
          THEN /\ th' = [blocked EXCEPT ![t] = IdleThread]
               /\ lock' = FALSE
          ELSE /\ th' = [blocked EXCEPT ![t] =
                           [IdleThread EXCEPT !.pc = "pass",
                                              !.todo = sessions_to_upload]]
               /\ lock' = TRUE
    /\ UNCHANGED << store, plugin, faulty, sources, aside, history >>

\* the loop calls __upload_session_to_wigle for the next session of the list
PassUpload(t) ==
    /\ th[t].pc = "pass"
    /\ IF has_api_key(options)
       THEN /\ th' = [th EXCEPT ![t] = [IdleThread EXCEPT
                         !.pc = "posting", !.todo = Tail(th[t].todo),
                         !.sid = Head(th[t].todo),
                         !.csv = upload_payload(Head(th[t].todo))]]
            /\ lock' = lock
       ELSE /\ th' = [th EXCEPT ![t] = [IdleThread EXCEPT
                         !.pc = IF Tail(th[t].todo) = <<>> THEN "idle" ELSE "pass",
                         !.todo = Tail(th[t].todo)]]
            /\ lock' = (Tail(th[t].todo) # <<>>)
    /\ UNCHANGED << store, plugin, faulty, sources, aside, history >>

\* session_networks raises (sqlite3.Error): nothing catches it before the
\* host, the with-block releases the lock
PassReadError(t) ==
    /\ th[t].pc = "pass"
    /\ has_api_key(options)
    /\ faulty
    /\ th' = [th EXCEPT ![t] = IdleThread]
    /\ lock' = FALSE
    /\ UNCHANGED << store, plugin, faulty, sources, aside, history >>

\* ------------------------------------------------------------ on_webhook
\* GET upload/<id>: session_id is the text after the last '/'
WebUpload(t, path_id) ==
    /\ ready
    /\ th[t].pc = "idle"
    /\ IF has_api_key(options)
       THEN th' = [th EXCEPT ![t] = [IdleThread EXCEPT
                      !.pc = "posting", !.sid = SqlInteger(path_id),
                      !.csv = upload_payload(SqlInteger(path_id))]]
       ELSE th' = th
    /\ UNCHANGED << store, plugin, lock, faulty, sources, aside, history >>

\* ------------------------------------------------------------ environment
\* from here on the remote accepts every authenticated upload and the store
\* reads succeed
Stabilise ==
    /\ faulty
    /\ faulty' = FALSE
    /\ UNCHANGED << store, plugin, lock, th, history, sources, aside >>

SyncStep(t) ==
    \/ InternetAvailable(t)
    \/ EnterPass(t)
    \/ PassUpload(t)
    \/ PassReadError(t)

UploadStep(t) ==
    \/ UploadAccepted(t)
    \/ UploadRaises(t)
    \/ UploadFailed(t)

Next ==
    \/ on_loaded
    \/ Restart
    \/ SingleApEvent
    \/ \E t \in SyncThreads : SyncStep(t)
    \/ \E t \in WebThreads, x \in PathIds : WebUpload(t, x)
    \/ \E t \in Threads : UploadStep(t)

Spec == Init /\ [][Next]_vars

\* The store and the scan handler alone, with scan events of several networks.
StoreNext == on_loaded \/ Restart \/ ScanEvent

\* the scan handler reads no option of the upload path: one configuration
StoreInit == Init /\ options = [wigle_enabled |-> FALSE, api_key |-> NoKey]

StoreSpec == StoreInit /\ [][StoreNext]_vars

\* The store and the scan handler with on_unload.
UnloadNext ==
    \/ StoreNext
    \/ on_unload
    \/ \E aps \in ScanInputs, gps \in GpsInputs : ScanClosed(aps, gps)

UnloadSpec == StoreInit /\ [][UnloadNext]_vars

\* ------------------------------------------------------------ the store alone
\* The methods of class Database called in any order and with any arguments,
\* as a caller of the store can call them.
DbSessionArgs == 1..MaxSessions
DbKeys == { [mac |-> "m1", ssid |-> "a"], [mac |-> "m1", ssid |-> ""] }

\* __db_connect never executes 'PRAGMA foreign_keys = ON': the connection
\* keeps SQLite's default and the FOREIGN KEY clauses are not enforced
foreign_keys == FALSE

\* the session_id of a new wardrive row passes the foreign-key check
foreign_key_ok(tbl, sid) ==
    foreign_keys => \E r \in Range(tbl) : r.id = sid

DbInit == Init /\ options = [wigle_enabled |-> FALSE, api_key |-> NoKey]

DbNewSession ==
    /\ sessions_seq < MaxSessions
    /\ sessions' = new_wardriving_session(sessions, sessions_seq, FALSE)
    /\ sessions_seq' = sessions_seq + 1
    /\ UNCHANGED << networks, wardrive, plugin, lock, th, faulty, sources, aside, history >>

DbAddWardrivedNetwork(sid, mac, ssid) ==
    /\ Len(wardrive) < MaxObs
    /\ networks' = add_network(networks, mac, ssid)
    /\ wardrive' = IF foreign_key_ok(sessions, sid)
                   THEN add_observation(wardrive, networks, sid, mac, ssid)
                   ELSE wardrive
    /\ UNCHANGED << sessions, sessions_seq, plugin, lock, th, faulty, sources, aside, history >>

DbSessionUploaded(sid) ==
    /\ sessions' = session_uploaded_to_wigle(sessions, sid)
    /\ UNCHANGED << sessions_seq, networks, wardrive, plugin, lock, th,
                    faulty, sources, aside, history >>

DbRemoveEmptySessions ==
    /\ sessions' = remove_empty_sessions(sessions, wardrive)
    /\ UNCHANGED << sessions_seq, networks, wardrive, plugin, lock, th,
                    faulty, sources, aside, history >>

DbNext ==
    \/ DbNewSession
    \/ \E sid \in DbSessionArgs, k \in DbKeys :
           DbAddWardrivedNetwork(sid, k.mac, k.ssid)
    \/ \E sid \in DbSessionArgs : DbSessionUploaded(sid)
    \/ DbRemoveEmptySessions

DbSpec == DbInit /\ [][DbNext]_vars

\* The GpsdClient alone: its calls, their iterations, its server.
GpsdSpec == StoreInit /\ [][GpsdNext]_vars

\* The plugin loaded with method 'pwndroid': the PwndroidClient with its
\* listener, on_unload and a scan event.
PwndroidSpec == StoreInit /\ [][on_loaded \/ PwndroidNext]_vars

\* The CSVGenerator alone, given the rows of any session.
CsvInit ==
    /\ InitPlugin
    /\ options = [wigle_enabled |-> FALSE, api_key |-> NoKey]
    /\ csv \in { [CsvNew EXCEPT !.networks = n] : n \in CsvInputs }

CsvSpec == CsvInit /\ [][CsvNext]_vars

\* The location source of one run: gps.method selects one client, the other
\* one is never built.
SourceNext ==
    \/ pwndroid.pc = "new" /\ GpsdNext
    \/ gpsd = GpsdNew /\ (on_loaded \/ PwndroidNext)

SourceSpec == StoreInit /\ [][SourceNext]_vars

\* Remote sync enabled, the environment stabilises at some time, every thread
\* that can take a step eventually takes one (connectivity signals keep
\* arriving, a started pass goes on, a stopped process is started again).
LiveInit == Init /\ wigle_enabled_option(options)

LiveNext == Next \/ Stabilise

LiveSpec ==
    /\ LiveInit
    /\ [][LiveNext]_vars
    /\ WF_vars(on_loaded)
    /\ WF_vars(Stabilise)
    /\ \A t \in SyncThreads : WF_vars(SyncStep(t) \/ UploadStep(t))

\* ------------------------------------------------------------------ claims
InPass(t) == th[t].pc \in {"pass", "posting", "failed"}

HasObservation(sid) == \E w \in Range(wardrive) : w.session_id = sid

SessionIds == { r.id : r \in Range(sessions) }

\* C1: a session whose wigle_uploaded flag is set has had an upload request
\* for its own id accepted by the remote service.
C1_UploadedOnlyAfterAck ==
    \A r \in Range(sessions) : r.wigle_uploaded = 1 => r.id \in acked

C1_Witness ==
    \E r \in Range(sessions) :
        r.wigle_uploaded = 1 /\ r.id \in acked /\ HasObservation(r.id)

\* C2: when the remote call of an upload fails, the steps of the call (the
\* exception, then the return from the except-block) leave the sessions table
\* as it is, and a session whose flag is 0 at the return is listed by
\* wigle_sessions_not_uploaded for every other current-session id.
C2_FailedUploadKeepsFlag ==
    [][ \A t \in Threads :
          (th[t].pc \in {"posting", "failed"} /\ ready'
           /\ (th'[t].pc = "failed" \/ th[t].pc = "failed")
           /\ th'[t] # th[t])
          => /\ sessions' = sessions
             /\ \A r \in Range(sessions') :
                  (r.id = th[t].sid /\ r.wigle_uploaded = 0)
                  => \A cur \in 0..MaxSessions :
                       cur # r.id
                       => r.id \in Range(wigle_sessions_not_uploaded(
                                             sessions', 1, cur)) ]_vars

C2_Witness ==
    \E t \in Threads :
        /\ th[t].pc = "failed"
        /\ \E r \in Range(sessions) : r.id = th[t].sid /\ r.wigle_uploaded = 0
        /\ HasObservation(th[t].sid)

\* C3: every observation of a session whose flag is set was contained in a
\* payload the remote accepted.
C3_UploadedInFull ==
    \A r \in Range(sessions) :
        r.wigle_uploaded = 1
        => \A w \in Range(wardrive) : w.session_id = r.id => w.id \in delivered

\* C4: the automatic sync path sends no upload request for a session whose
\* flag is set at the moment the request is sent.
C4_SyncNeverSendsUploaded ==
    [][ \A t \in SyncThreads :
          (th[t].pc = "pass" /\ th'[t].pc = "posting")
          => ~IsUploaded(sessions, th'[t].sid) ]_vars

\* C5: at most one on_internet_available invocation is inside the gated
\* section at any time.
C5_OnePassInFlight ==
    Cardinality({ t \in SyncThreads : InPass(t) }) <= 1

C5_Witness ==
    \E t, u \in SyncThreads : InPass(t) /\ th[u].pc = "acquire"

\* C6: of two overlapping invocations only one performs a sync pass: an
\* invocation that was blocked on the lock while another one entered its pass
\* never enters the gated section and never fetches the list of pending
\* sessions.
C6_OverlappingSignalDropped ==
    [][ \A t \in SyncThreads :
          (th[t].pc = "acquire" /\ th'[t].pc # "acquire" /\ ready'
           /\ wigle_enabled)
          => ~th[t].waited ]_vars

\* C7: a sync pass does not end while sessions of its list are still to be
\* attempted: no failure for one session (the remote call, or reading and
\* serializing the session) prevents the attempts for the sessions after it.
AfterCurrent(t) ==
    IF th[t].pc = "pass" THEN Tail(th[t].todo) ELSE th[t].todo

C7_PassAttemptsEverySession ==
    [][ \A t \in SyncThreads :
          (InPass(t) /\ th'[t].pc = "idle" /\ ready')
          => AfterCurrent(t) = <<>> ]_vars

\* C8: with remote sync enabled, every session that has an observation, is
\* not the current session and has its flag at 0 is eventually marked
\* uploaded.
Pending(sid) ==
    /\ wigle_enabled_option(options)
    /\ sid # session_id
    /\ HasObservation(sid)
    /\ \E r \in Range(sessions) : r.id = sid /\ r.wigle_uploaded = 0

C8_AtLeastOnceDelivery ==
    \A sid \in 1..MaxSessions : Pending(sid) ~> IsUploaded(sessions, sid)

C8_Witness ==
    \E sid \in SessionIds :
        /\ sid # session_id
        /\ HasObservation(sid)
        /\ IsUploaded(sessions, sid)
        /\ ~faulty
        /\ sessions_seq > sid + 1

\* C9: the flag of a session row is monotonic: a row whose flag is set and
\* that exists after a step has its flag set after the step.
C9_FlagMonotonic ==
    [][ \A r \in Range(sessions) :
          r.wigle_uploaded = 1
          => \A r2 \in Range(sessions') :
               r2.id = r.id => r2.wigle_uploaded = 1 ]_vars

C9_Witness ==
    \E r \in Range(sessions) :
        r.wigle_uploaded = 1 /\ ready /\ session_id > r.id

\* C10: wigle_sessions_not_uploaded(X) returns exactly the ids of the rows
\* with flag 0 other than X, and the automatic sync path neither lists nor
\* sends the current session.
C10_NotUploadedExcludesCurrent ==
    /\ \A cur \in 0..MaxSessions :
         Range(wigle_sessions_not_uploaded(sessions, 1, cur))
           = { r.id : r \in { x \in Range(sessions) :
                                x.wigle_uploaded = 0 /\ x.id # cur } }
    /\ \A t \in SyncThreads :
         /\ session_id \notin Range(th[t].todo)
         /\ th[t].pc \in {"posting", "failed"} => th[t].sid # session_id

C10_Witness ==
    \E t \in SyncThreads :
        /\ th[t].pc = "posting"
        /\ \E r \in Range(sessions) : r.id = session_id /\ r.wigle_uploaded = 0
        /\ HasObservation(session_id)

NetworkRows(tbl, mac, ssid) ==
    { i \in 1..Len(tbl) : tbl[i].mac = mac /\ tbl[i].ssid = ssid }

LastRow(tbl) == tbl[Len(tbl)]

\* C11: after any sequence of add_wardrived_network calls the networks table
\* holds at most one row per (mac, ssid), and two further calls with the same
\* (mac, ssid), for the same session or for two sessions, leave exactly one
\* row for the pair and attach both observations to the id of that row; the
\* empty ssid included.
C11_OneRowPerNetwork ==
    /\ \A i, j \in 1..Len(networks) :
         (networks[i].mac = networks[j].mac
          /\ networks[i].ssid = networks[j].ssid) => i = j
    /\ \A k \in DbKeys, s1 \in DbSessionArgs :
         LET n1 == add_network(networks, k.mac, k.ssid)
             w1 == add_observation(wardrive, networks, s1, k.mac, k.ssid)
             n2 == add_network(n1, k.mac, k.ssid)
         IN /\ Cardinality(NetworkRows(n2, k.mac, k.ssid)) = 1
            /\ \A i \in NetworkRows(n2, k.mac, k.ssid) :
                 n2[i].id = LastRow(w1).network_id
            /\ \A s2 \in { s1, (s1 % MaxSessions) + 1 } :
                 LastRow(add_observation(w1, n1, s2, k.mac, k.ssid)).network_id
                   = LastRow(w1).network_id

C11_Witness ==
    \E v, w \in Range(wardrive) :
        /\ v.session_id # w.session_id
        /\ v.network_id = w.network_id
        /\ \E n \in Range(networks) : n.id = v.network_id /\ n.ssid = ""
        /\ Len(networks) = 2

\* C12: remove_empty_sessions deletes exactly the sessions without an
\* observation: afterwards every session row has an observation, every row
\* that had one is still there with the same flag, no row is new, and the
\* networks and wardrive tables are as before.
C12_PurgeExactlyEmpty ==
    [][ DbRemoveEmptySessions
        => /\ \A r \in Range(sessions') :
                \E w \in Range(wardrive') : w.session_id = r.id
           /\ \A r \in Range(sessions) :
                HasObservation(r.id) => r \in Range(sessions')
           /\ Range(sessions') \subseteq Range(sessions)
           /\ networks' = networks
           /\ wardrive' = wardrive ]_vars

C12_Witness ==
    /\ Len(sessions) < sessions_seq
    /\ \A r \in Range(sessions) : HasObservation(r.id)
    /\ \E r \in Range(sessions) : r.wigle_uploaded = 1
    /\ \E r \in Range(sessions) : r.wigle_uploaded = 0

\* C14: session_uploaded_to_wigle is idempotent: the table after two calls
\* for an id is the table after one call, the flag of the id is 1 after each,
\* and no other row changes.
C14_MarkUploadedIdempotent ==
    \A sid \in DbSessionArgs :
        LET once == session_uploaded_to_wigle(sessions, sid)
            twice == session_uploaded_to_wigle(once, sid)
        IN /\ twice = once
           /\ Len(once) = Len(sessions)
           /\ \A i \in 1..Len(sessions) :
                /\ once[i].id = sessions[i].id
                /\ sessions[i].id = sid
                   => once[i].wigle_uploaded = 1 /\ twice[i].wigle_uploaded = 1
                /\ sessions[i].id # sid => once[i] = sessions[i]

C14_Witness ==
    \E r, q \in Range(sessions) :
        r.wigle_uploaded = 1 /\ q.wigle_uploaded = 0 /\ q.id > r.id

\* C15: add_wardrived_network called with a session id that is not in the
\* sessions table stores no wardrive row.
C15_MissingSessionRejected ==
    [][ \A sid \in DbSessionArgs, k \in DbKeys :
          (DbAddWardrivedNetwork(sid, k.mac, k.ssid) /\ sid \notin SessionIds)
          => wardrive' = wardrive ]_vars

\* C13: a session without observations is the current session of the running
\* process or, while no process runs, the session of the run that stopped
\* last: the constructor of Database purges it before on_loaded creates the
\* session of the next run.
C13_OnlyCurrentSessionEmpty ==
    \A r \in Range(sessions) :
        ~HasObservation(r.id)
        => r.id = (IF ready THEN session_id ELSE sessions_seq)

C13_Witness ==
    /\ ready
    /\ ~HasObservation(session_id)
    /\ Len(sessions) = 2
    /\ sessions_seq = 3

\* the wardrive row w references a row of stbl and a row of ntbl
Referenced(w, stbl, ntbl) ==
    /\ \E i \in 1..Len(stbl) : stbl[i].id = w.session_id
    /\ \E i \in 1..Len(ntbl) : ntbl[i].id = w.network_id

\* C16: every wardrive row references a sessions row and a networks row that
\* exist, in every state the plugin reaches; and the row the plugin's next
\* write inserts references the current session's row and a networks row
\* that is in the table when the row is inserted (add_wardrived_network
\* inserts the networks row first), so that a reader between the two
\* statements sees no dangling row either.
C16_ReferentialIntegrity ==
    /\ \A i \in 1..Len(wardrive) : Referenced(wardrive[i], sessions, networks)
    /\ ready
       => \A ap \in Aps :
            Referenced(LastRow(add_observation(wardrive, networks, session_id,
                                               ap.mac, ssid_of(ap))),
                       sessions, add_network(networks, ap.mac, ssid_of(ap)))

C16_Witness ==
    /\ ready
    /\ Len(sessions) < sessions_seq
    /\ \E v, w \in Range(wardrive) :
         v.session_id # w.session_id /\ v.network_id # w.network_id

\* a reading in which the latitude or the longitude is absent
coordinate_absent(gps) == gps.Latitude = None \/ gps.Longitude = None

\* the scan event of a step, by its recorded inputs
ScanStep == on_unfiltered_ap_list(last_event'.aps, last_event'.gps)

\* C17: a scan event whose reading lacks the latitude or the longitude leaves
\* the store and the dedup list as they are, sets __gps_available to False
\* and __last_gps to '-'; the store, the dedup list, the session id and the
\* ready flag are all a located event reads besides its inputs, so that it
\* writes after the skipped event what it would have written before it.
C17_NoFixEventWritesNothing ==
    [][ (ScanStep /\ coordinate_absent(last_event'.gps))
        => /\ sessions' = sessions
           /\ networks' = networks
           /\ wardrive' = wardrive
           /\ session_reported' = session_reported
           /\ gps_available' = FALSE
           /\ last_gps' = NoLastGps
           /\ session_id' = session_id
           /\ ready' = ready ]_vars

C17_Witness ==
    /\ coordinate_absent(last_event.gps)
    /\ last_event.aps # <<>>
    /\ ~gps_available
    /\ last_gps = NoLastGps
    /\ HasObservation(session_id)

\* C18: a scan event is processed as located exactly when its reading has
\* both coordinates, whatever their value, and then (the altitude given)
\* every surviving network is written.
C18_LocatedIffCoordinatesPresent ==
    [][ ScanStep
        => /\ gps_available' = ~coordinate_absent(last_event'.gps)
           /\ (~coordinate_absent(last_event'.gps)
               /\ last_event'.gps.Altitude # None)
              => Len(wardrive') = Len(wardrive)
                                    + Len(surviving(last_event'.aps)) ]_vars

\* C19: a scan event whose reading has both coordinates and no altitude is
\* located and stores one wardrive row for every surviving network.
C19_AltitudeOptional ==
    [][ (ScanStep /\ ~coordinate_absent(last_event'.gps)
         /\ last_event'.gps.Altitude = None)
        => /\ gps_available'
           /\ Len(wardrive') = Len(wardrive)
                                 + Len(surviving(last_event'.aps)) ]_vars

\* the (mac, ssid) of the wardrive rows a step has appended
Written ==
    { <<n.mac, n.ssid>> :
        n \in { m \in Range(networks') :
                  \E i \in (Len(wardrive) + 1)..Len(wardrive') :
                      wardrive'[i].network_id = m.id } }

\* C20: the networks a scan event writes are networks of the event whose
\* name is not in the whitelist, no wardrive row references a network with a
\* whitelisted name, and at a complete fix every network of the event that is
\* neither whitelisted nor reported yet is written.
C20_IgnoredNeverWritten ==
    [][ ScanStep
        => LET aps == last_event'.aps
               allowed == { ap \in Range(aps) : ap.hostname \notin Whitelist }
           IN /\ Written \subseteq { <<ap.mac, ssid_of(ap)>> : ap \in allowed }
              /\ \A w \in Range(wardrive'), n \in Range(networks') :
                   n.id = w.network_id => n.ssid \notin Whitelist
              /\ last_event'.gps = Fix
                 => \A ap \in allowed :
                      <<ap.mac, ssid_of(ap)>> \notin session_reported
                      => <<ap.mac, ssid_of(ap)>> \in Written ]_vars

C20_Witness ==
    /\ last_event.gps = Fix
    /\ \E i, j \in 1..Len(last_event.aps) :
         /\ last_event.aps[i].hostname \in Whitelist
         /\ last_event.aps[j].hostname \notin Whitelist
         /\ <<last_event.aps[j].mac, ssid_of(last_event.aps[j])>>
              \in session_reported
    /\ HasObservation(session_id)
    /\ \A n \in Range(networks) : n.ssid \notin Whitelist

\* C21: a session (the observations of one run) holds at most one wardrive
\* row per network: a network delivered again by a later scan event of the
\* run, a hidden one included, is not written again.
C21_WholeRunDedup ==
    \A i, j \in 1..Len(wardrive) :
        (wardrive[i].session_id = wardrive[j].session_id
         /\ wardrive[i].network_id = wardrive[j].network_id) => i = j

\* the networks of the step's scan event that are not whitelisted, not
\* reported in this run, and already in the networks table with an
\* observation of another session
SeenInEarlierRun ==
    { ap \in Range(last_event'.aps) :
        /\ ap.hostname \notin Whitelist
        /\ <<ap.mac, ssid_of(ap)>> \notin session_reported
        /\ \E w \in Range(wardrive) :
             /\ w.session_id # session_id
             /\ w.network_id = find_network(networks, 1, ap.mac, ssid_of(ap)) }

\* C22: a network observed in an earlier run and delivered at a complete fix
\* for the first time in this run gets a new wardrive row in the current
\* session that references the networks row of the earlier run, and no
\* networks row is added for it.
C22_DedupPerRun ==
    [][ (ScanStep /\ last_event'.gps = Fix)
        => \A ap \in SeenInEarlierRun :
             /\ \E i \in (Len(wardrive) + 1)..Len(wardrive') :
                  /\ wardrive'[i].session_id = session_id
                  /\ wardrive'[i].network_id
                       = find_network(networks, 1, ap.mac, ssid_of(ap))
             /\ NetworkRows(networks', ap.mac, ssid_of(ap))
                  = NetworkRows(networks, ap.mac, ssid_of(ap)) ]_vars

C22_Witness ==
    /\ ready
    /\ last_event.gps = Fix
    /\ Len(networks) = 1
    /\ \E v, w \in Range(wardrive) :
         /\ v.session_id < w.session_id
         /\ w.session_id = session_id
         /\ v.network_id = w.network_id
         /\ w.id = Len(wardrive)

\* C23: connect() terminates: every step inside it is an iteration that
\* fails, counts one more attempt (below MAX_RETRIES before it) and one more
\* backoff, or the return; it returns right after the first acknowledged
\* handshake, without a backoff, or after exactly MAX_RETRIES attempts and
\* MAX_RETRIES backoffs.
C23_ConnectTerminates ==
    [][ gpsd.pc = "connect"
        => \/ /\ gpsd'.pc = "connect"
              /\ gpsd.attempt < MAX_RETRIES
              /\ gpsd'.attempt = gpsd.attempt + 1
              /\ gpsd'.sleeps = gpsd.sleeps + 1
              /\ ~gpsd'.acked
           \/ /\ gpsd'.pc # "connect"
              /\ gpsd'.acked
              /\ gpsd'.attempt = gpsd.attempt + 1
              /\ gpsd'.sleeps = gpsd.sleeps
              /\ gpsd'.sleeps = gpsd.attempt
           \/ /\ gpsd'.pc # "connect"
              /\ ~gpsd'.acked
              /\ gpsd'.attempt = MAX_RETRIES
              /\ gpsd'.sleeps = MAX_RETRIES ]_vars

C23_Witness ==
    /\ gpsd.pc = "idle"
    /\ gpsd.caller = "host"
    /\ ~gpsd.acked
    /\ gpsd.attempt = MAX_RETRIES
    /\ gpsd.sleeps = MAX_RETRIES

\* C24: a get_coordinates() call during which the server is unreachable makes
\* at most MAX_RETRIES handshake attempts.
C24_PollHandshakesCapped ==
    (gpsd.server = "down" /\ gpsd.pc # "idle")
    => gpsd.handshakes <= MAX_RETRIES

\* C25: get_coordinates() never raises: a call that has ended has returned a
\* fix record or None, from every state of the client and whatever the
\* server answers.
C25_PollNeverRaises ==
    /\ gpsd.result # "raised"
    /\ gpsd.pc = "idle" => gpsd.result \in {"none", "fix", "partial", "nofix"}

C25_Witness ==
    /\ gpsd.pc = "idle"
    /\ gpsd.result = "nofix"
    /\ gpsd.server = "up"
    /\ gpsd.stream
    /\ gpsd.handshakes > MAX_RETRIES

\* C26: disconnect() sets the terminal flag in whatever state it is called,
\* with a connection or between two attempts: once it has returned,
\* __destroy is set.
C26_DisconnectSetsFlag ==
    pwndroid.upc = "done" => pwndroid.destroy

\* C27: while the terminal flag is not set, every loss of the connection
\* met by recv() (remote close, decode failure, another error) sets the
\* connection to none, so that the loop of connect() makes a new attempt.
C27_LossDropsConnection ==
    (/\ pwndroid.pc = "listening"
     /\ pwndroid.last \in {"closed", "undecodable", "error"}
     /\ ~pwndroid.destroy)
    => ~pwndroid.websocket

\* C28: the fix a scan event uses comes from one message: latitude,
\* longitude and altitude carry the same message number.
C28_FixNotTorn ==
    (pwndroid.rpc = "idle" /\ pwndroid.used.Latitude # 0)
    => /\ pwndroid.used.Longitude = pwndroid.used.Latitude
       /\ pwndroid.used.Altitude = pwndroid.used.Latitude

\* C29: with no API key configured, absent or empty, no upload request is
\* sent by any path: no thread, of the connectivity signal or of the manual
\* upload, is inside requests.post.
C29_NoKeyNoUpload ==
    (ready /\ options.api_key \in {NoKey, ""})
    => \A t \in Threads : th[t].pc # "posting"

\* text.split(sep): the pieces between the separators
split(text, sep) ==
    LET cuts == {0, Len(text) + 1}
                \cup { i \in 1..Len(text) : text[i] = sep }
        cut(k) == CHOOSE c \in cuts :
                      Cardinality({ d \in cuts : d < c }) = k
    IN [k \in 1..(Cardinality(cuts) - 1) |->
            SubSeq(text, cut(k - 1) + 1, cut(k) - 1)]

\* the rows of an export: the lines after pre-header and header, without
\* the empty piece after the last newline, each split on the comma
parsed_rows(text) ==
    LET lines == split(text, Newline)
        body == SubSeq(lines, 3, Len(lines) - 1)
    IN [i \in 1..Len(body) |-> split(body[i], Comma)]

\* C30: splitting the export of networks_to_wigle_csv on newline and comma
\* gives one row of eleven fields per row of the session, in order, with the
\* same MAC, SSID, channel, RSSI, latitude, longitude, altitude and
\* accuracy, the last field being WIFI.
C30_CsvRoundTrip ==
    csv.stage = "csv"
    => LET rows == parsed_rows(csv.text)
       IN /\ Len(rows) = Len(csv.networks)
          /\ \A i \in 1..Len(rows) :
               /\ Len(rows[i]) = 11
               /\ rows[i][1] = csv.networks[i].mac
               /\ rows[i][2] = csv.networks[i].ssid
               /\ rows[i][5] = csv.networks[i].channel
               /\ rows[i][6] = csv.networks[i].rssi
               /\ rows[i][7] = csv.networks[i].latitude
               /\ rows[i][8] = csv.networks[i].longitude
               /\ rows[i][9] = csv.networks[i].altitude
               /\ rows[i][10] = csv.networks[i].accuracy
               /\ rows[i][11] = <<"WIFI">>

\* C31: disconnect() is idempotent for both socket clients, from every
\* state: a second call right after the first leaves the client as the
\* first left it, and finds no socket or connection to close.
C31_DisconnectIdempotent ==
    /\ gpsd_disconnect(gpsd_disconnect(gpsd)) = gpsd_disconnect(gpsd)
    /\ ~gpsd_disconnect(gpsd).socket
    /\ pwndroid_disconnect(pwndroid_disconnect(pwndroid))
         = pwndroid_disconnect(pwndroid)
    /\ ~pwndroid_disconnect(pwndroid).websocket

C31_Witness ==
    /\ gpsd.pc = "idle"
    /\ gpsd.handshakes > 0
    /\ ~gpsd.socket
    /\ gpsd.acked

\* C32: add_wardrived_network is atomic: a call that fails on the INSERT of
\* the observation leaves no trace, so that after a scan event whose writes
\* all succeed and are committed every networks row has an observation.
C32_FailedWriteLeavesNoTrace ==
    [][ (/\ ScanStep
         /\ wardrive_not_null(last_event'.gps)
         /\ Len(wardrive') > Len(wardrive))
        => \A n \in Range(networks') :
             \E w \in Range(wardrive') : w.network_id = n.id ]_vars

\* C33: after a connect() cycle that used up its MAX_RETRIES attempts with
\* no valid handshake the client holds no usable stream, so that the next
\* get_coordinates() has to go through a new handshake cycle before a POLL
\* is sent.
C33_ExhaustedHoldsNoStream ==
    (gpsd.pc # "connect" /\ ~gpsd.acked /\ gpsd.attempt = MAX_RETRIES)
    => ~gpsd.stream

\* C34: get_coordinates() returns a fix only for a POLL report whose first
\* tpv entry has latitude and longitude; a call whose last answer is anything
\* else returns no fix.
C34_FixOnlyWithLatLon ==
    (gpsd.pc = "idle" /\ gpsd.result # "none")
    => gpsd.result = (IF gpsd.last = "fix" THEN "fix" ELSE "nofix")

\* C35: the stored fix is last-write-wins over accepted messages only: the
\* three assignments made for a message with all three fields leave exactly
\* its values, nothing else changes the stored fix, and a message that is
\* not JSON or lacks a field leaves the fix and the connection as they are
\* with the listener back in its receive loop.
C35_LastWriteWins ==
    [][ /\ (pwndroid.pc = "write_alt" /\ pwndroid'.pc # "write_alt")
           => pwndroid'.coordinates = [Latitude |-> pwndroid.msgs,
                                       Longitude |-> pwndroid.msgs,
                                       Altitude |-> pwndroid.msgs]
        /\ pwndroid'.coordinates # pwndroid.coordinates
           => pwndroid.pc \in {"write_lat", "write_lon", "write_alt"}
        /\ (/\ pwndroid.pc = "recv"
            /\ pwndroid'.pc # "recv"
            /\ pwndroid'.last \in {"undecodable", "invalid"})
           => /\ pwndroid'.coordinates = pwndroid.coordinates
              /\ pwndroid'.websocket = pwndroid.websocket
              /\ pwndroid'.pc \in {"listening", "sleep5"} ]_vars

C35_Witness ==
    /\ pwndroid.pc = "listening"
    /\ pwndroid.last = "undecodable"
    /\ pwndroid.websocket
    /\ pwndroid.msgs = MaxMsgs
    /\ pwndroid.coordinates = [Latitude |-> MaxMsgs, Longitude |-> MaxMsgs,
                               Altitude |-> MaxMsgs]

\* C36: whenever ready is true the store has the current session and the
\* location source exists, so that no scan event that has passed the ready
\* check fails on a source that was not constructed.
C36_ReadyGate ==
    ready => /\ session_id \in SessionIds
             /\ pwndroid.pc # "new"
             /\ pwndroid.rpc # "raised"

\* C37: after on_unload has closed the connection of the store the ready
\* gate rejects every callback, and no operation is attempted on the closed
\* connection.
C37_NoStoreUseAfterUnload ==
    /\ connection = "closed" => ~ready
    /\ connection # "failed"

\* C38: the whole-run dedup list never runs ahead of the store: every pair
\* in __session_reported has an observation in the current session, also
\* after a scan event in which a write raised.
C38_ReportedHasObservation ==
    ready => \A pair \in session_reported :
                \E w \in Range(wardrive) :
                    /\ w.session_id = session_id
                    /\ w.network_id = find_network(networks, 1, pair[1], pair[2])

\* the sockets the client has open: the one of __gpsd_socket and the one an
\* older stream keeps
open_sockets(g) ==
    (IF g.socket THEN 1 ELSE 0) + (IF g.stale THEN 1 ELSE 0)

\* C39: the GpsdClient has at most one socket open at any time, whatever the
\* handshakes do.
C39_OneOpenSocket == open_sockets(gpsd) <= 1

\* C40: on_internet_available never uploads an empty session: whenever a
\* thread of the connectivity signal enters requests.post, the session it
\* sends has an observation and the payload read for it is not empty.
C40_SyncNeverUploadsEmpty ==
    [][ \A t \in SyncThreads :
          (th[t].pc # "posting" /\ th'[t].pc = "posting")
          => /\ th'[t].csv # <<>>
             /\ \E w \in Range(wardrive') : w.session_id = th'[t].sid ]_vars

C40_Witness ==
    \E t \in SyncThreads :
        /\ th[t].pc = "posting"
        /\ th[t].csv # <<>>
        /\ Len(sessions) < sessions_seq
====
